---- MODULE Spec2Model ----
(***************************************************************************)
(* Model of the deep/wide research engine: the research loop               *)
(* (research_strategy.py), the budget lookup (newprompt.py), the two run   *)
(* forms and the streaming bridge (engine.py, main.py), the report phase   *)
(* (generate_strategy.py) and the client registry (mcp_client.py).         *)
(*                                                                         *)
(* Abstractions: a model output is the sequence of its <tool_call> blocks  *)
(* (the text around them is never read by the code); depth and breadth     *)
(* are written in hundredths (0.25 is 25); texts that the code only        *)
(* passes along are fixed strings.                                         *)
(***************************************************************************)
EXTENDS Integers, Sequences, FiniteSets, TLC

\* ------------------------------------------------------------------ bounds

\* cfg.max_react_tool_calls is drawn from 1..MaxSteps
MaxSteps == 3
\* at most this many call_tool invocations raise in one run
MaxToolFailures == 2
\* at most this many MCPClient objects are constructed
MaxClients == 2

\* ----------------------------------------------------------------- helpers

Min(a, b) == IF a < b THEN a ELSE b

Range(s) == {s[i] : i \in DOMAIN s}

Last(s) == s[Len(s)]

\* ------------------------------------------------------ budget (newprompt)

\* keys of deep_settings / wide_settings
MappedValues == {25, 50, 75, 100}

\* mutant: the rounds grow with the depth, 16 at full depth
max_search_rounds_scaled(deep) == (deep * 16) \div 100

\* deep_settings[deep_param]["max_search_rounds"]
max_search_rounds(deep) ==
    CASE deep = 25 -> 2
      [] deep = 50 -> 4
      [] deep = 75 -> 8
      [] deep = 100 -> 16

\* wide_settings[wide_param]["max_calls_per_round"]
max_calls_per_round(wide) ==
    CASE wide = 25 -> 2
      [] wide = 50 -> 4
      [] wide = 75 -> 4
      [] wide = 100 -> 16

\* deep_settings[deep_param] / wide_settings[wide_param] raise KeyError
ConfigRaises(deep, wide) == deep \notin MappedValues \/ wide \notin MappedValues

\* generate_dynamic_research_config: the two limits it hands on, or that the
\* lookup of deep_settings / wide_settings raised KeyError
generate_dynamic_research_config(deep, wide) ==
    IF ConfigRaises(deep, wide)
    THEN [kind |-> "KeyError", max_search_rounds |-> 0, max_calls_per_round |-> 0]
    ELSE [kind |-> "return",
          max_search_rounds |-> max_search_rounds(deep),
          max_calls_per_round |-> max_calls_per_round(wide)]

\* the function has not been called
NoConfig == [kind |-> "none", max_search_rounds |-> 0, max_calls_per_round |-> 0]

\* the part of the system prompt that depends on the run: the tool catalog
\* and the limits written into hard_limits_block
create_unified_research_prompt(tools, deep, wide) ==
    [tools |-> tools,
     max_search_rounds |-> max_search_rounds(deep),
     max_calls_per_round |-> max_calls_per_round(wide)]

\* ------------------------------------------------- providers and registry

Servers == {"tavily", "exa"}

\* MCP_TOOLS_CONFIG, in dict order
MCP_TOOLS_CONFIG ==
    << [name |-> "tavily", tools |-> {"tavily-search"}],
       [name |-> "exa", tools |-> {"web_search_exa"}] >>

\* what list_tools() of each provider answers
ProviderTools(server) ==
    IF server = "tavily" THEN <<"tavily-search", "tavily-extract">>
    ELSE <<"web_search_exa">>

\* mutant: every discovered tool is selected
select_tools_all(server, tool_names) == ProviderTools(server)

\* mutant: a requested name the provider does not offer spoils the selection
select_tools_strict(server, tool_names) ==
    IF \A t \in tool_names : \E i \in DOMAIN ProviderTools(server) :
                                  ProviderTools(server)[i] = t
    THEN SelectSeq(ProviderTools(server), LAMBDA t : t \in tool_names)
    ELSE <<>>

\* MCPClient.select_tools: the discovered tools whose name is requested
select_tools(server, tool_names) ==
    SelectSeq(ProviderTools(server), LAMBDA t : t \in tool_names)

\* MCPRegistry.collect_tools over the first n entries of config; the servers
\* in `down` fail the exchange of list_tools, and the exception leaves the
\* loop with the clients made so far (the failing one included) created
RECURSIVE CollectUpTo(_, _, _, _)
CollectUpTo(config, servers, down, n) ==
    IF n = 0 THEN [tools |-> <<>>, clients |-> <<>>, raised |-> FALSE]
    ELSE LET prev == CollectUpTo(config, servers, down, n - 1)
             e == config[n]
             made == [prev EXCEPT !.clients = Append(@, e.name)]
         IN IF prev.raised \/ e.name \notin servers THEN prev
            ELSE IF e.name \in down THEN [made EXCEPT !.raised = TRUE]
            ELSE [made EXCEPT !.tools = @ \o select_tools(e.name, e.tools)]

collect_tools(config, servers, down) ==
    CollectUpTo(config, servers, down, Len(config))

\* ------------------------------------------------------------ model output

Call(t) == [kind |-> "call", tool |-> t, arguments |-> "q"]

\* a block whose body is not JSON
BadJson == [kind |-> "badjson", tool |-> "", arguments |-> ""]

\* a block whose body is JSON but not an object (a list, a string, a number)
NonObject == [kind |-> "nonobject", tool |-> "", arguments |-> ""]

ResearchComplete == "ResearchComplete"

\* what the model may answer in one completion call
ModelOutputs ==
    { <<>>,
      << Call(ResearchComplete) >>,
      << Call("tavily-search"), Call(ResearchComplete) >>,
      << BadJson >>,
      << NonObject >>,
      << NonObject, Call(ResearchComplete) >>,
      << NonObject, Call("tavily-search") >>,
      << Call("tavily-search") >>,
      << BadJson, Call("web_search_exa") >>,
      << Call("tavily-search"), Call("web_search_exa"), Call("tavily-search") >> }

\* tool_data.get on a value that is not a dict raises AttributeError, which
\* the except clause (json.JSONDecodeError) does not catch
ParseRaises(content) == \E i \in DOMAIN content : content[i].kind = "nonobject"

\* parse_tool_calls on the first n blocks: a block that is not JSON is
\* skipped, the id is the block's position among all matches
RECURSIVE ParseUpTo(_, _)
ParseUpTo(content, n) ==
    IF n = 0 THEN <<>>
    ELSE IF content[n].kind = "call"
         THEN Append(ParseUpTo(content, n - 1),
                     [id |-> n, tool |-> content[n].tool,
                      arguments |-> content[n].arguments])
         ELSE ParseUpTo(content, n - 1)

\* mutant: every block is given the id of the first one
parse_tool_calls_one_id(content) ==
    LET calls == ParseUpTo(content, Len(content))
    IN [i \in DOMAIN calls |-> [calls[i] EXCEPT !.id = 1]]

parse_tool_calls(content) == ParseUpTo(content, Len(content))

\* any(tc["tool"] == "ResearchComplete" for tc in tool_calls)
HasResearchComplete(calls) == \E i \in DOMAIN calls : calls[i].tool = ResearchComplete

\* ------------------------------------------------------------ tool results

\* json.dumps / json.loads of a call result
json_dumps(v) == [text |-> v]

json_loads(s) == s.text

\* what call_tool of a client returns when it does not raise
Payload(server) == [error |-> FALSE, from |-> server]

\* {"error": "Tool '...' not found in any MCP server"}
NotFoundError == [error |-> TRUE, from |-> "none"]

\* one _execute_single_tool coroutine: the client it is about to try
\* and the clients whose call_tool raised; result is None until it is set
NewTask == [state |-> "running", client |-> 1, raised |-> {}, result |-> "None"]

\* the coroutine after call_tool of client t.client returned: the result is
\* dumped and the loop over the clients is left
TaskAfterReturn(t, clients) ==
    [t EXCEPT !.state = "done", !.result = json_dumps(Payload(clients[t.client]))]

\* the coroutine after call_tool of client t.client raised: the next client
\* is tried; after the last one the result is the not-found error
TaskAfterRaise(t, clients) ==
    IF t.client < Len(clients)
    THEN [t EXCEPT !.client = @ + 1, !.raised = @ \cup {clients[t.client]}]
    ELSE [t EXCEPT !.state = "done", !.raised = @ \cup {clients[t.client]},
                   !.result = json_dumps(NotFoundError)]

\* ------------------------------------------- json.dumps / json.loads, by text

\* the longest string inside a payload
MaxChars == 2

\* the characters of a string: a plain one, the quote, the backslash and one
\* outside ASCII
CodecChars == {"a", "\"", "\\", "eacute"}

Strings == UNION {[1..n -> CodecChars] : n \in 0..MaxChars}

\* a JSON value: null, true, a number, a string, a list, or an object with
\* one key
Value(type, n, chars, key, inner) ==
    [type |-> type, n |-> n, chars |-> chars, key |-> key, inner |-> inner]

Null == Value("null", 0, <<>>, <<>>, <<>>)

Atoms ==
    {Null, Value("true", 0, <<>>, <<>>, <<>>)}
    \cup {Value("int", n, <<>>, <<>>, <<>>) : n \in {0, 1}}
    \cup {Value("string", 0, s, <<>>, <<>>) : s \in Strings}

\* what call_tool hands to json.dumps
JsonValues ==
    Atoms
    \cup {Value("list", 0, <<>>, <<>>, <<>>)}
    \cup {Value("list", 0, <<>>, <<>>, <<a>>) : a \in Atoms}
    \cup {Value("object", 0, <<>>, k, <<a>>) : k \in {<<"a">>, <<"eacute">>}, a \in Atoms}

\* mutant: no character of a string is escaped
escape_none(c) == <<c>>

\* json.dumps of one character of a string (ensure_ascii is left True)
escape(c) ==
    CASE c = "\"" -> <<"\\", "\"">>
      [] c = "\\" -> <<"\\", "\\">>
      [] c = "eacute" -> <<"\\", "u00e9">>
      [] OTHER -> <<c>>

RECURSIVE dump_chars(_)
dump_chars(chars) ==
    IF chars = <<>> THEN <<>> ELSE escape(Head(chars)) \o dump_chars(Tail(chars))

dump_string(chars) == <<"\"">> \o dump_chars(chars) \o <<"\"">>

dump_atom(v) ==
    CASE v.type = "null" -> <<"null">>
      [] v.type = "true" -> <<"true">>
      [] v.type = "int" -> IF v.n = 0 THEN <<"0">> ELSE <<"1">>
      [] OTHER -> dump_string(v.chars)

\* json.dumps(result): the text, character by character
dumps(v) ==
    CASE v.type = "list" ->
            <<"[">> \o (IF v.inner = <<>> THEN <<>> ELSE dump_atom(v.inner[1])) \o <<"]">>
      [] v.type = "object" ->
            <<"{">> \o dump_string(v.key) \o <<":", " ">> \o dump_atom(v.inner[1])
                    \o <<"}">>
      [] OTHER -> dump_atom(v)

\* what a reader hands back: whether it read a value, the value, and the
\* position after it
Read(ok, value, next) == [ok |-> ok, value |-> value, next |-> next]

NoRead == Read(FALSE, Null, 0)

\* the characters of a string from position i to its closing quote
RECURSIVE read_chars(_, _, _)
read_chars(text, i, acc) ==
    IF i > Len(text) THEN NoRead
    ELSE IF text[i] = "\"" THEN Read(TRUE, Value("string", 0, acc, <<>>, <<>>), i + 1)
    ELSE IF text[i] = "\\"
         THEN IF i + 1 > Len(text) THEN NoRead
              ELSE IF text[i + 1] = "u00e9" THEN read_chars(text, i + 2, Append(acc, "eacute"))
              ELSE IF text[i + 1] \in {"\"", "\\"}
                   THEN read_chars(text, i + 2, Append(acc, text[i + 1]))
              ELSE NoRead
    ELSE read_chars(text, i + 1, Append(acc, text[i]))

read_atom(text, i) ==
    IF i > Len(text) THEN NoRead
    ELSE CASE text[i] = "null" -> Read(TRUE, Null, i + 1)
           [] text[i] = "true" -> Read(TRUE, Value("true", 0, <<>>, <<>>, <<>>), i + 1)
           [] text[i] = "0" -> Read(TRUE, Value("int", 0, <<>>, <<>>, <<>>), i + 1)
           [] text[i] = "1" -> Read(TRUE, Value("int", 1, <<>>, <<>>, <<>>), i + 1)
           [] text[i] = "\"" -> read_chars(text, i + 1, <<>>)
           [] OTHER -> NoRead

\* the text at position i is c
At(text, i, c) == i <= Len(text) /\ text[i] = c

read_value(text) ==
    IF At(text, 1, "[")
    THEN IF At(text, 2, "]") THEN Read(TRUE, Value("list", 0, <<>>, <<>>, <<>>), 3)
         ELSE LET a == read_atom(text, 2)
              IN IF a.ok /\ At(text, a.next, "]")
                 THEN Read(TRUE, Value("list", 0, <<>>, <<>>, <<a.value>>), a.next + 1)
                 ELSE NoRead
    ELSE IF At(text, 1, "{")
    THEN LET k == IF At(text, 2, "\"") THEN read_chars(text, 3, <<>>) ELSE NoRead
             a == IF k.ok /\ At(text, k.next, ":") /\ At(text, k.next + 1, " ")
                  THEN read_atom(text, k.next + 2) ELSE NoRead
         IN IF a.ok /\ At(text, a.next, "}")
            THEN Read(TRUE, Value("object", 0, <<>>, k.value.chars, <<a.value>>),
                      a.next + 1)
            ELSE NoRead
    ELSE read_atom(text, 1)

\* json.loads(result_text): the value, when the whole text is one value
loads(text) ==
    LET r == read_value(text)
    IN IF r.ok /\ r.next = Len(text) + 1 THEN r ELSE NoRead

\* the "result" of a ledger entry: the parsed value, or the text itself when
\* json.loads raises
Parsed(json, value, text) == [json |-> json, value |-> value, text |-> text]

NoParse == Parsed(FALSE, Null, <<>>)

parse_result(text) ==
    IF loads(text).ok THEN Parsed(TRUE, loads(text).value, <<>>)
    ELSE Parsed(FALSE, Null, text)

\* ------------------------------------------------------------------- state

VARIABLES
    mode,                 \* "stream": run_deep_research_stream, "sync": run_deep_research
    topic,                \* the last user message
    deep_param,
    wide_param,
    max_steps,            \* cfg.max_react_tool_calls
    registered,           \* registry._servers
    active_clients,       \* registry._active_clients
    connected,            \* the clients whose _connected is True
    rpc,                  \* position of run_research_llm_driven
    step,                 \* rounds completed
    llm_calls,            \* chat_complete calls issued by the research loop
    messages,
    conversation_history,
    tool_interactions,
    mcp_clients,
    tool_calls,           \* the calls dispatched in the current round
    tasks,                \* the _execute_single_tool coroutines of the round
    failures,             \* call_tool invocations that raised
    raw_notes,
    outcome,              \* which return of the research loop was taken
    exception,            \* what the research loop raised
    outputs,              \* the contents chat_complete returned, in order
    bpc,                  \* position of the run form
    status_queue,
    events,               \* what the stream has yielded
    notes,                \* state["notes"]
    state_messages,       \* state["messages"]
    final_report,
    report_calls,         \* chat_complete calls issued by the report phase
    sync_result           \* what run_deep_research handed to its caller

\* the registry and the clients as objects of their own, driven call by call
\* (the runs above see them through registered, active_clients, connected)
VARIABLES
    _servers,             \* MCPRegistry._servers: name -> MCPServerConfig
    instances,            \* the MCPClient objects constructed so far
    _active_clients,      \* MCPRegistry._active_clients, as indices of instances
    call,                 \* the last call made on the registry or on a client
    ret                   \* what that call returned, or that it raised

\* single functions and scenarios of their own, each driven by its own
\* specification; the runs and the registry calls above leave them alone
VARIABLES
    budget,               \* what generate_dynamic_research_config came to
    runs,                 \* concurrent runs on one event loop: their positions
    closed_by,            \* per client, the runs whose close_all_clients
                          \* passed it to close()
    responses,            \* per client, the HTTP response its server gives
    exchanges,            \* what call_tool came to, per client tried
    single,               \* one _execute_single_tool coroutine
    payload,              \* what call_tool returned: a JSON value
    result_text,          \* json.dumps(result), as a sequence of characters
    parsed_result         \* the "result" of the ledger entry

inputs == << mode, topic, deep_param, wide_param, max_steps, registered >>

library == << _servers, instances, _active_clients, call, ret >>

registry == << active_clients, connected >>

research == << rpc, step, llm_calls, messages, conversation_history,
               tool_interactions, mcp_clients, tool_calls, tasks, failures,
               raw_notes, outcome, exception, outputs >>

bridge == << bpc, status_queue, events, notes, state_messages, final_report,
             report_calls, sync_result >>

invoke == << responses, exchanges, single >>

codec == << payload, result_text, parsed_result >>

detached == << budget, runs, closed_by, invoke, codec >>

vars == << inputs, library, registry, research, bridge, detached >>

\* generate_dynamic_research_config is not under study
BudgetIdle == budget = NoConfig

\* no run is using the global registry
SharedIdle == runs = <<>> /\ closed_by = <<>>

\* no tool is being invoked over HTTP
InvokeIdle == responses = <<>> /\ exchanges = <<>> /\ single = NewTask

\* no payload is being encoded
CodecIdle == payload = Null /\ result_text = <<>> /\ parsed_result = NoParse

DetachedIdle == BudgetIdle /\ SharedIdle /\ InvokeIdle /\ CodecIdle

TaskDone == rpc \in {"returned", "raised"}

\* ---------------------------------------------------------------- findings

\* json.dumps({"topic": ..., "tool_calls": ...})
RawJson(t, ledger, err) ==
    [kind |-> "json", topic |-> t, tool_calls |-> ledger, error |-> err, text |-> <<>>]

\* "\n\n".join of the contents of conversation_history
RawText(history) ==
    [kind |-> "text", topic |-> "", tool_calls |-> <<>>, error |-> "",
     text |-> [i \in DOMAIN history |-> history[i].content]]

\* ------------------------------------------------- calls and their results

\* a call on the registry or on a client: the operation and its arguments
\* (the fields an operation does not take are left empty)
\* fails: the servers whose exchange fails while the call is served
Op(op, name, transport_type, client, names, selection, fails) ==
    [op |-> op, name |-> name, transport_type |-> transport_type,
     client |-> client, names |-> names, selection |-> selection,
     fails |-> fails]

NoCall == Op("none", "", "", 0, {}, <<>>, {})

\* what a call hands back: kind is "None", "True", "False", "client",
\* "tools", "result", "collected" or "raised"
Ret(kind, client, tools, clients) ==
    [kind |-> kind, client |-> client, tools |-> tools, clients |-> clients]

None == Ret("None", 0, <<>>, <<>>)

Raised == Ret("raised", 0, <<>>, <<>>)

\* nothing was called on the registry yet
LibraryUntouched ==
    /\ _servers = <<>>
    /\ instances = <<>>
    /\ _active_clients = <<>>
    /\ call = NoCall
    /\ ret = None

\* ------------------------------------------------------------------- Init

DeepInputs == {25, 40}

WideInputs == {25, 40}

Init ==
    /\ mode \in {"stream", "sync"}
    /\ topic \in {"", "topic"}
    /\ deep_param \in DeepInputs
    /\ wide_param \in WideInputs
    /\ max_steps \in 1..MaxSteps
    /\ registered \in SUBSET Servers
    /\ LibraryUntouched
    /\ DetachedIdle
    /\ active_clients = <<>>
    /\ connected = {}
    /\ rpc = "idle"
    /\ step = 0
    /\ llm_calls = 0
    /\ messages = <<>>
    /\ conversation_history = <<>>
    /\ tool_interactions = <<>>
    /\ mcp_clients = <<>>
    /\ tool_calls = <<>>
    /\ tasks = <<>>
    /\ failures = 0
    /\ raw_notes = RawJson("", <<>>, "")
    /\ outcome = "none"
    /\ exception = "none"
    /\ outputs = <<>>
    /\ bpc = "start"
    /\ status_queue = <<>>
    /\ events = <<>>
    /\ notes = <<>>
    /\ state_messages = << [role |-> "user", content |-> topic] >>
    /\ final_report = ""
    /\ report_calls = 0
    /\ sync_result = "none"

\* ----------------------------------------- research loop (research_strategy)

\* the tool names shown in one status message: list(set(...))[:3]
StatusMessages(calls) ==
    LET unique == {calls[i].tool : i \in DOMAIN calls}
    IN {S \in SUBSET unique : Cardinality(S) = Min(3, Cardinality(unique))}

\* call_info_map.get(call_id, {}): the last call holding that id
CallInfo(calls, id) ==
    LET S == {i \in DOMAIN calls : calls[i].id = id}
    IN IF S = {} THEN [tool |-> "", arguments |-> ""]
       ELSE LET last == CHOOSE i \in S : \A j \in S : j <= i
            IN [tool |-> calls[last].tool, arguments |-> calls[last].arguments]

\* mutant: the results are handed back last call first
ToolResultsReversed(calls, ts) ==
    [i \in DOMAIN calls |->
        LET j == Len(calls) + 1 - i
        IN [tool_call_id |-> calls[j].id, tool |-> calls[j].tool,
            result |-> ts[j].result]]

\* what asyncio.gather hands back: one result per call, in call order
ToolResults(calls, ts) ==
    [i \in DOMAIN calls |->
        [tool_call_id |-> calls[i].id, tool |-> calls[i].tool, result |-> ts[i].result]]

\* the ledger entries of one round
LedgerEntries(calls, results, round) ==
    [i \in DOMAIN results |->
        LET info == CallInfo(calls, results[i].tool_call_id)
        IN [step |-> round,
            id |-> results[i].tool_call_id,
            tool |-> IF results[i].tool # "" THEN results[i].tool ELSE info.tool,
            arguments |-> info.arguments,
            result |-> json_loads(results[i].result)]]

\* top of `for step in range(max_steps)` with k rounds completed: the next
\* completion call, or the return after the loop
ContinueLoop(k, ledger) ==
    /\ step' = k
    /\ IF k < max_steps
       THEN /\ rpc' = "llm"
            /\ llm_calls' = llm_calls + 1
            /\ UNCHANGED << raw_notes, outcome >>
       ELSE /\ rpc' = "returned"
            /\ raw_notes' = RawJson(topic, ledger, "")
            /\ outcome' = "Exhausted"
            /\ UNCHANGED llm_calls

\* run_research_llm_driven up to its first completion call; the servers in
\* `down` fail the exchange of list_tools
ResearchStart(down) ==
    /\ rpc = "start"
    /\ UNCHANGED << inputs, library, detached, bridge, conversation_history, tool_interactions,
                    tool_calls, tasks, failures, outputs >>
    /\ IF topic = ""
       THEN /\ rpc' = "returned"
            /\ raw_notes' = RawJson("", <<>>, "")
            /\ outcome' = "EmptyTopic"
            /\ UNCHANGED << registry, step, llm_calls, messages, mcp_clients,
                            exception >>
       ELSE LET got == collect_tools(MCP_TOOLS_CONFIG, registered, down)
            IN /\ active_clients' = active_clients \o got.clients
               /\ connected' = connected \cup Range(got.clients)
               /\ IF got.raised
                  THEN /\ rpc' = "raised"
                       /\ outcome' = "Raised"
                       /\ exception' = "RuntimeError"
                       /\ UNCHANGED << step, llm_calls, messages, mcp_clients,
                                       raw_notes >>
                  ELSE IF got.tools = <<>>
                  THEN /\ mcp_clients' = got.clients
                       /\ rpc' = "returned"
                       /\ raw_notes' = RawJson(topic, <<>>, "No tools available")
                       /\ outcome' = "NoTools"
                       /\ UNCHANGED << step, llm_calls, messages, exception >>
                  ELSE IF ConfigRaises(deep_param, wide_param)
                  THEN /\ mcp_clients' = got.clients
                       /\ rpc' = "raised"
                       /\ outcome' = "Raised"
                       /\ exception' = "KeyError"
                       /\ UNCHANGED << step, llm_calls, messages, raw_notes >>
                  ELSE /\ mcp_clients' = got.clients
                       /\ messages' =
                            << [role |-> "system",
                                content |-> create_unified_research_prompt(
                                                got.tools, deep_param, wide_param)],
                               [role |-> "user", content |-> topic] >>
                       /\ ContinueLoop(0, tool_interactions)
                       /\ UNCHANGED exception

\* mutant: the early return on an output without calls is missing
IsFinalAnswerNever(calls) == FALSE

\* `if not tool_calls`
IsFinalAnswer(calls) == calls = <<>>

\* chat_complete returns `out`: parse it, then return or dispatch the calls
LLMReturn(out) ==
    /\ rpc = "llm"
    /\ outputs' = Append(outputs, out)
    /\ UNCHANGED << inputs, library, detached, registry, step, llm_calls, tool_interactions,
                    mcp_clients, failures, bpc, events, notes, state_messages,
                    final_report, report_calls, sync_result >>
    /\ IF ParseRaises(out)
       THEN /\ rpc' = "raised"
            /\ outcome' = "Raised"
            /\ exception' = "AttributeError"
            /\ UNCHANGED << messages, conversation_history, tool_calls, tasks,
                            raw_notes, status_queue >>
       ELSE LET calls == parse_tool_calls(out)
                history == Append(conversation_history,
                                  [role |-> "assistant", content |-> out])
            IN /\ conversation_history' = history
               /\ UNCHANGED exception
               /\ IF IsFinalAnswer(calls)
                  THEN /\ rpc' = "returned"
                       /\ raw_notes' = RawJson(topic, tool_interactions, "")
                       /\ outcome' = "Completed"
                       /\ UNCHANGED << messages, tool_calls, tasks, status_queue >>
                  ELSE IF HasResearchComplete(calls)
                  THEN /\ rpc' = "returned"
                       /\ raw_notes' = RawText(history)
                       /\ outcome' = "Completed"
                       /\ UNCHANGED << messages, tool_calls, tasks, status_queue >>
                  ELSE /\ messages' = Append(messages,
                                             [role |-> "assistant", content |-> out])
                       /\ IF mode = "stream"
                          THEN \E msg \in StatusMessages(calls) :
                                  status_queue' = Append(status_queue, msg)
                          ELSE UNCHANGED status_queue
                       /\ tool_calls' = calls
                       /\ tasks' = [i \in DOMAIN calls |-> NewTask]
                       /\ rpc' = "tools"
                       /\ UNCHANGED << raw_notes, outcome >>

\* chat_complete raises in the research loop
LLMFail ==
    /\ rpc = "llm"
    /\ rpc' = "raised"
    /\ outcome' = "Raised"
    /\ exception' = "CompletionError"
    /\ UNCHANGED << inputs, library, detached, registry, bridge, step, llm_calls, messages,
                    conversation_history, tool_interactions, mcp_clients,
                    tool_calls, tasks, failures, raw_notes, outputs >>

Invocable(i) ==
    /\ rpc = "tools"
    /\ i \in DOMAIN tasks
    /\ tasks[i].state = "running"

\* _execute_single_tool i: call_tool of the client it tries returns
InvokeReturn(i) ==
    /\ Invocable(i)
    /\ tasks' = [tasks EXCEPT ![i] = TaskAfterReturn(@, mcp_clients)]
    /\ UNCHANGED << inputs, library, detached, registry, bridge, rpc, step, llm_calls, messages,
                    conversation_history, tool_interactions, mcp_clients,
                    tool_calls, failures, raw_notes, outcome, exception, outputs >>

\* _execute_single_tool i: call_tool of the client it tries raises, and the
\* next client is tried; after the last one the result is the error
InvokeRaise(i) ==
    /\ Invocable(i)
    /\ failures < MaxToolFailures
    /\ failures' = failures + 1
    /\ tasks' = [tasks EXCEPT ![i] = TaskAfterRaise(@, mcp_clients)]
    /\ UNCHANGED << inputs, library, detached, registry, bridge, rpc, step, llm_calls, messages,
                    conversation_history, tool_interactions, mcp_clients,
                    tool_calls, raw_notes, outcome, exception, outputs >>

\* mutant: the round is folded as soon as the first call is done; the calls
\* still running are given the not-found error and left behind
GatherFirstDone ==
    /\ rpc = "tools"
    /\ tasks[1].state = "done"
    /\ LET settled == [i \in DOMAIN tasks |->
                          IF tasks[i].state = "done" THEN tasks[i]
                          ELSE [tasks[i] EXCEPT !.result = json_dumps(NotFoundError)]]
           tool_results == ToolResults(tool_calls, settled)
           ledger == tool_interactions \o LedgerEntries(tool_calls, tool_results, step + 1)
       IN /\ tool_interactions' = ledger
          /\ messages' = Append(messages, [role |-> "user", content |-> tool_results])
          /\ conversation_history' =
                Append(conversation_history,
                       [role |-> "tool_results", content |-> tool_results])
          /\ ContinueLoop(step + 1, ledger)
    /\ UNCHANGED << inputs, library, detached, registry, bridge, mcp_clients, tool_calls, tasks,
                    failures, exception, outputs >>

\* mutant: the conversation is cut back to the system prompt, the topic and
\* the results of the round just folded
GatherDoneCompacting ==
    /\ rpc = "tools"
    /\ \A i \in DOMAIN tasks : tasks[i].state = "done"
    /\ LET tool_results == ToolResults(tool_calls, tasks)
           ledger == tool_interactions \o LedgerEntries(tool_calls, tool_results, step + 1)
       IN /\ tool_interactions' = ledger
          /\ messages' = << messages[1], messages[2],
                            [role |-> "user", content |-> tool_results] >>
          /\ conversation_history' =
                Append(conversation_history,
                       [role |-> "tool_results", content |-> tool_results])
          /\ ContinueLoop(step + 1, ledger)
    /\ UNCHANGED << inputs, library, detached, registry, bridge, mcp_clients, tool_calls, tasks,
                    failures, exception, outputs >>

\* asyncio.gather returns: record the round, feed the results back
GatherDone ==
    /\ rpc = "tools"
    /\ \A i \in DOMAIN tasks : tasks[i].state = "done"
    /\ LET tool_results == ToolResults(tool_calls, tasks)
           ledger == tool_interactions \o LedgerEntries(tool_calls, tool_results, step + 1)
       IN /\ tool_interactions' = ledger
          /\ messages' = Append(messages, [role |-> "user", content |-> tool_results])
          /\ conversation_history' =
                Append(conversation_history,
                       [role |-> "tool_results", content |-> tool_results])
          /\ ContinueLoop(step + 1, ledger)
    /\ UNCHANGED << inputs, library, detached, registry, bridge, mcp_clients, tool_calls, tasks,
                    failures, exception, outputs >>

\* ------------------------------------------- report phase and registry close

ReportTexts == {"report"}

Event(action, message) == [action |-> action, message |-> message]

\* MCPRegistry.close_all_clients: every tracked client is closed, the list
\* is cleared
CloseAllClients ==
    /\ active_clients' = <<>>
    /\ connected' = connected \ Range(active_clients)

\* the notes and the RAW_NOTES_JSON message that both run forms derive from
\* the result of the research phase
TakeFindings ==
    /\ notes' = << raw_notes >>
    /\ state_messages' = Append(state_messages, [role |-> "user", content |-> raw_notes])

\* ---------------------------------------------- streaming bridge (engine)

\* run_deep_research_stream yields thinking before anything else
StreamThinking ==
    /\ mode = "stream"
    /\ bpc = "start"
    /\ events' = Append(events, Event("thinking", "thinking..."))
    /\ bpc' = "spawn"
    /\ UNCHANGED << inputs, library, detached, registry, research, status_queue, notes,
                    state_messages, final_report, report_calls, sync_result >>

\* asyncio.create_task(_run_researcher(...))
StreamSpawn ==
    /\ bpc = "spawn"
    /\ rpc' = "start"
    /\ bpc' = "poll"
    /\ UNCHANGED << inputs, library, detached, registry, step, llm_calls, messages,
                    conversation_history, tool_interactions, mcp_clients,
                    tool_calls, tasks, failures, raw_notes, outcome,
                    exception, outputs, status_queue, events, notes, state_messages, final_report,
                    report_calls, sync_result >>

\* a status message leaves the queue and is yielded as using_tools
EmitStatus ==
    /\ status_queue # <<>>
    /\ events' = Append(events, Event("using_tools", Head(status_queue)))
    /\ status_queue' = Tail(status_queue)

\* wait_for(status_queue.get(), 0.1) got a message
StreamPoll ==
    /\ bpc = "poll"
    /\ EmitStatus
    /\ UNCHANGED << inputs, library, detached, registry, research, bpc, notes, state_messages,
                    final_report, report_calls, sync_result >>

\* mutant: the consumer waits on the queue without a timeout, and looks at
\* the task again only after a message has come
StreamLoopExitBlocking ==
    /\ bpc = "poll"
    /\ TaskDone
    /\ EmitStatus
    /\ bpc' = "drain"
    /\ UNCHANGED << inputs, library, detached, registry, research, notes,
                    state_messages, final_report, report_calls, sync_result >>

\* `while not research_task.done()` ends
StreamLoopExit ==
    /\ bpc = "poll"
    /\ TaskDone
    /\ bpc' = "drain"
    /\ UNCHANGED << inputs, library, detached, registry, research, status_queue, events, notes,
                    state_messages, final_report, report_calls, sync_result >>

\* `while not status_queue.empty()`: one remaining message
StreamDrain ==
    /\ bpc = "drain"
    /\ EmitStatus
    /\ UNCHANGED << inputs, library, detached, registry, research, bpc, notes, state_messages,
                    final_report, report_calls, sync_result >>

\* mutant: the failure of the research task is reported as soon as the
\* polling loop ends, with status messages still in the queue
StreamResearchRaisedUndrained ==
    /\ bpc = "drain"
    /\ rpc = "raised"
    /\ events' = Append(events, Event("error", exception))
    /\ bpc' = "failed"
    /\ UNCHANGED << inputs, library, detached, registry, research, status_queue, notes,
                    state_messages, final_report, report_calls, sync_result >>

\* `await research_task` raises: research_stream_generator yields error
StreamResearchRaised ==
    /\ bpc = "drain"
    /\ status_queue = <<>>
    /\ rpc = "raised"
    /\ events' = Append(events, Event("error", exception))
    /\ bpc' = "failed"
    /\ UNCHANGED << inputs, library, detached, registry, research, status_queue, notes,
                    state_messages, final_report, report_calls, sync_result >>

\* mutant: the failure of the research task is swallowed and the run goes on
\* to the report phase
StreamGeneratingAfterFailure ==
    /\ bpc = "drain"
    /\ status_queue = <<>>
    /\ TaskDone
    /\ TakeFindings
    /\ events' = Append(events, Event("generating", "research finished, generating..."))
    /\ bpc' = "report"
    /\ UNCHANGED << inputs, library, detached, registry, research, status_queue, final_report,
                    report_calls, sync_result >>

\* mutant: generating is yielded when the polling loop ends, before the
\* remaining status messages are drained
StreamGeneratingBeforeDrain ==
    /\ bpc = "poll"
    /\ rpc = "returned"
    /\ TakeFindings
    /\ events' = Append(events, Event("generating", "research finished, generating..."))
    /\ bpc' = "drain"
    /\ UNCHANGED << inputs, library, detached, registry, research, status_queue, final_report,
                    report_calls, sync_result >>

\* mutant: a research that returned a ledger without tool calls ends the
\* run at once, with no report phase
StreamGeneratingSkipEmpty ==
    /\ bpc = "drain"
    /\ status_queue = <<>>
    /\ rpc = "returned"
    /\ TakeFindings
    /\ IF raw_notes.tool_calls = <<>>
       THEN /\ events' = Append(events, Event("complete", final_report))
            /\ bpc' = "done"
       ELSE /\ events' = Append(events, Event("generating", "research finished, generating..."))
            /\ bpc' = "report"
    /\ UNCHANGED << inputs, library, detached, registry, research, status_queue, final_report,
                    report_calls, sync_result >>

\* `await research_task` returns: the findings are taken, generating is yielded
StreamGenerating ==
    /\ bpc = "drain"
    /\ status_queue = <<>>
    /\ rpc = "returned"
    /\ TakeFindings
    /\ events' = Append(events, Event("generating", "research finished, generating..."))
    /\ bpc' = "report"
    /\ UNCHANGED << inputs, library, detached, registry, research, status_queue, final_report,
                    report_calls, sync_result >>

\* ------------------------------------------ non-streaming form (engine)

\* run_deep_research awaits _run_researcher inline, with no status callback
SyncStart ==
    /\ mode = "sync"
    /\ bpc = "start"
    /\ rpc' = "start"
    /\ bpc' = "research"
    /\ UNCHANGED << inputs, library, detached, registry, step, llm_calls, messages,
                    conversation_history, tool_interactions, mcp_clients,
                    tool_calls, tasks, failures, raw_notes, outcome,
                    exception, outputs, status_queue, events, notes, state_messages, final_report,
                    report_calls, sync_result >>

\* _run_researcher raises: run_deep_research raises to its caller
SyncResearchRaised ==
    /\ bpc = "research"
    /\ rpc = "raised"
    /\ bpc' = "failed"
    /\ sync_result' = "failure"
    /\ UNCHANGED << inputs, library, detached, registry, research, status_queue, events, notes,
                    state_messages, final_report, report_calls >>

\* mutant: the non-streaming form closes the clients as soon as the research
\* returns, before the report phase
SyncResearchDoneClosing ==
    /\ bpc = "research"
    /\ rpc = "returned"
    /\ TakeFindings
    /\ CloseAllClients
    /\ bpc' = "report"
    /\ UNCHANGED << inputs, library, detached, research, status_queue, events,
                    final_report, report_calls, sync_result >>

\* _run_researcher returns
SyncResearchDone ==
    /\ bpc = "research"
    /\ rpc = "returned"
    /\ TakeFindings
    /\ bpc' = "report"
    /\ UNCHANGED << inputs, library, detached, registry, research, status_queue, events,
                    final_report, report_calls, sync_result >>

\* ------------------------------------------------- report (both forms)

\* final_report_generation: generate_report issues its completion call
ReportCall ==
    /\ bpc = "report"
    /\ report_calls' = report_calls + 1
    /\ bpc' = "report_wait"
    /\ UNCHANGED << inputs, library, detached, registry, research, status_queue, events, notes,
                    state_messages, final_report, sync_result >>

\* mutant: complete is yielded with the report field as it was before the
\* report was stored
ReportReturnStale(text) ==
    /\ bpc = "report_wait"
    /\ final_report' = text
    /\ notes' = <<>>
    /\ state_messages' = Append(state_messages, [role |-> "assistant", content |-> text])
    /\ CloseAllClients
    /\ IF mode = "stream"
       THEN /\ events' = Append(events, Event("complete", final_report))
            /\ UNCHANGED sync_result
       ELSE /\ sync_result' = "state"
            /\ UNCHANGED events
    /\ bpc' = "done"
    /\ UNCHANGED << inputs, library, detached, research, status_queue, report_calls >>

\* the completion call returns `text`: the report is stored, the clients are
\* closed, the run ends (complete, or the state handed back)
ReportReturn(text) ==
    /\ bpc = "report_wait"
    /\ final_report' = text
    /\ notes' = <<>>
    /\ state_messages' = Append(state_messages, [role |-> "assistant", content |-> text])
    /\ CloseAllClients
    /\ IF mode = "stream"
       THEN /\ events' = Append(events, Event("complete", text))
            /\ UNCHANGED sync_result
       ELSE /\ sync_result' = "state"
            /\ UNCHANGED events
    /\ bpc' = "done"
    /\ UNCHANGED << inputs, library, detached, research, status_queue, report_calls >>

\* the completion call of the report phase raises
ReportFail ==
    /\ bpc = "report_wait"
    /\ IF mode = "stream"
       THEN /\ events' = Append(events, Event("error", "CompletionError"))
            /\ UNCHANGED sync_result
       ELSE /\ sync_result' = "failure"
            /\ UNCHANGED events
    /\ bpc' = "failed"
    /\ UNCHANGED << inputs, library, detached, registry, research, status_queue, notes,
                    state_messages, final_report, report_calls >>

\* ------------------------------------------------------------------- Spec

Next ==
    \/ \E down \in SUBSET Servers : ResearchStart(down)
    \/ \E out \in ModelOutputs : LLMReturn(out)
    \/ LLMFail
    \/ \E i \in DOMAIN tasks : InvokeReturn(i)
    \/ \E i \in DOMAIN tasks : InvokeRaise(i)
    \/ GatherDone
    \/ StreamThinking
    \/ StreamSpawn
    \/ StreamPoll
    \/ StreamLoopExit
    \/ StreamDrain
    \/ StreamResearchRaised
    \/ StreamGenerating
    \/ SyncStart
    \/ SyncResearchRaised
    \/ SyncResearchDone
    \/ ReportCall
    \/ \E text \in ReportTexts : ReportReturn(text)
    \/ ReportFail

Spec == Init /\ [][Next]_vars

\* ------------------------------------------- the streaming form, scheduled

\* one round less than Spec allows keeps the graph small enough
StreamInit ==
    /\ Init
    /\ mode = "stream"
    /\ max_steps < MaxSteps

StreamNext ==
    \/ \E down \in SUBSET Servers : ResearchStart(down)
    \/ \E out \in ModelOutputs : LLMReturn(out)
    \/ LLMFail
    \/ \E i \in DOMAIN tasks : InvokeReturn(i)
    \/ \E i \in DOMAIN tasks : InvokeRaise(i)
    \/ GatherDone
    \/ StreamThinking
    \/ StreamSpawn
    \/ StreamPoll
    \/ StreamLoopExit
    \/ StreamDrain
    \/ StreamResearchRaised
    \/ StreamGenerating
    \/ ReportCall
    \/ \E text \in ReportTexts : ReportReturn(text)
    \/ ReportFail

\* the generator's own steps: the event loop resumes it whenever it can go
\* on (the sleep and the 0.1 s timeout of wait_for always expire)
Consumer ==
    \/ StreamThinking
    \/ StreamSpawn
    \/ StreamPoll
    \/ StreamLoopExit
    \/ StreamDrain
    \/ StreamResearchRaised
    \/ StreamGenerating
    \/ ReportCall

\* the completion call of the report phase comes back
ReportAnswers == (\E text \in ReportTexts : ReportReturn(text)) \/ ReportFail

\* no fairness on the research task: it may never finish
LiveSpec ==
    /\ StreamInit
    /\ [][StreamNext]_vars
    /\ WF_vars(Consumer)
    /\ WF_vars(ReportAnswers)

\* ============================================ registry and clients, by call

\* the run's variables stay as they are before a run starts
RunUnstarted ==
    /\ mode = "sync"
    /\ topic = ""
    /\ max_steps = 1
    /\ registered = {}
    /\ active_clients = <<>>
    /\ connected = {}
    /\ rpc = "idle"
    /\ step = 0
    /\ llm_calls = 0
    /\ messages = <<>>
    /\ conversation_history = <<>>
    /\ tool_interactions = <<>>
    /\ mcp_clients = <<>>
    /\ tool_calls = <<>>
    /\ tasks = <<>>
    /\ failures = 0
    /\ raw_notes = RawJson("", <<>>, "")
    /\ outcome = "none"
    /\ exception = "none"
    /\ outputs = <<>>
    /\ bpc = "start"
    /\ status_queue = <<>>
    /\ events = <<>>
    /\ notes = <<>>
    /\ state_messages = << [role |-> "user", content |-> topic] >>
    /\ final_report = ""
    /\ report_calls = 0
    /\ sync_result = "none"

RunIdle ==
    /\ deep_param = 25
    /\ wide_param = 25
    /\ RunUnstarted

\* the variables of a run of the engine
run_vars == << inputs, registry, research, bridge >>

run == << run_vars, detached >>

\* transport_type is a free string; create_client knows "stdio" and "http"
Transports == {"stdio", "http", "sse"}

KnownTransports == {"stdio", "http"}

\* MCPServerConfig, by the fields the registry reads
Configs == [name : Servers, transport_type : Transports]

\* _load_builtin_servers: a server is registered when its API key is set,
\* over http under RAILWAY_ENVIRONMENT and over stdio otherwise
BuiltinServers ==
    {[n \in S |-> [name |-> n, transport_type |-> t]] :
        S \in SUBSET Servers, t \in KnownTransports}

\* MCPClient.__init__: not connected
NewClient(server) == [server |-> server, connected |-> FALSE, was_closed |-> FALSE]

\* MCPRegistry.__init__
RegistryInit ==
    /\ RunIdle
    /\ DetachedIdle
    /\ _servers \in BuiltinServers
    /\ instances = <<>>
    /\ _active_clients = <<>>
    /\ call = NoCall
    /\ ret = None

\* mutant: a name that is registered keeps its configuration
register_if_absent(servers, config) ==
    [n \in DOMAIN servers \cup {config.name} |->
        IF n \in DOMAIN servers THEN servers[n] ELSE config]

\* self._servers[config.name] = config
register(servers, config) ==
    [n \in DOMAIN servers \cup {config.name} |->
        IF n = config.name THEN config ELSE servers[n]]

\* MCPRegistry.register
Register(config) ==
    /\ _servers' = register(_servers, config)
    /\ call' = Op("register", config.name, config.transport_type, 0, {}, <<>>, {})
    /\ ret' = None
    /\ UNCHANGED << run, instances, _active_clients >>

\* MCPRegistry.unregister
Unregister(name) ==
    /\ IF name \in DOMAIN _servers
       THEN /\ _servers' = [n \in DOMAIN _servers \ {name} |-> _servers[n]]
            /\ ret' = Ret("True", 0, <<>>, <<>>)
       ELSE /\ ret' = Ret("False", 0, <<>>, <<>>)
            /\ UNCHANGED _servers
    /\ call' = Op("unregister", name, "", 0, {}, <<>>, {})
    /\ UNCHANGED << run, instances, _active_clients >>

\* mutant: create_client builds a client for any name
CreatableAnyName(servers, name) == TRUE

\* create_client finds a configuration it can build a client from
Creatable(servers, name) ==
    /\ name \in DOMAIN servers
    /\ servers[name].transport_type \in KnownTransports

\* MCPClient.connect
connect(c) == [c EXCEPT !.connected = TRUE]

\* MCPClient.close
close(c) ==
    IF ~c.connected THEN c
    ELSE [c EXCEPT !.connected = FALSE, !.was_closed = TRUE]

\* MCPRegistry.create_client
CreateClient(name) ==
    /\ call' = Op("create_client", name, "", 0, {}, <<>>, {})
    /\ IF Creatable(_servers, name)
       THEN /\ Len(instances) < MaxClients
            /\ instances' = Append(instances, connect(NewClient(name)))
            /\ _active_clients' = Append(_active_clients, Len(instances) + 1)
            /\ ret' = Ret("client", Len(instances) + 1, <<>>, <<>>)
       ELSE /\ ret' = None
            /\ UNCHANGED << instances, _active_clients >>
    /\ UNCHANGED << run, _servers >>

\* await client.connect()
Connect(c) ==
    /\ instances' = [instances EXCEPT ![c] = connect(@)]
    /\ call' = Op("connect", "", "", c, {}, <<>>, {})
    /\ ret' = None
    /\ UNCHANGED << run, _servers, _active_clients >>

\* mutant: close of a client that is not connected raises
CloseStrict(c) ==
    /\ instances' = [instances EXCEPT ![c] = close(@)]
    /\ call' = Op("close", "", "", c, {}, <<>>, {})
    /\ ret' = IF instances[c].connected THEN None ELSE Raised
    /\ UNCHANGED << run, _servers, _active_clients >>

\* await client.close()
Close(c) ==
    /\ instances' = [instances EXCEPT ![c] = close(@)]
    /\ call' = Op("close", "", "", c, {}, <<>>, {})
    /\ ret' = None
    /\ UNCHANGED << run, _servers, _active_clients >>

\* the server of client c when its exchange fails
Failing(c, ok) == IF ok THEN {} ELSE {instances[c].server}

\* MCPClient.list_tools: connects when not connected, then one exchange with
\* the server, which answers (ok) or fails
ListTools(c, ok) ==
    /\ instances' = [instances EXCEPT ![c] = connect(@)]
    /\ call' = Op("list_tools", "", "", c, {}, <<>>, Failing(c, ok))
    /\ ret' = IF ok THEN Ret("tools", c, ProviderTools(instances[c].server), <<>>)
              ELSE Raised
    /\ UNCHANGED << run, _servers, _active_clients >>

\* MCPClient.select_tools
SelectTools(c, tool_names, ok) ==
    /\ instances' = [instances EXCEPT ![c] = connect(@)]
    /\ call' = Op("select_tools", "", "", c, tool_names, <<>>, Failing(c, ok))
    /\ ret' = IF ok THEN Ret("tools", c, select_tools(instances[c].server, tool_names), <<>>)
              ELSE Raised
    /\ UNCHANGED << run, _servers, _active_clients >>

\* MCPClient.call_tool
CallTool(c, tool_name, ok) ==
    /\ instances' = [instances EXCEPT ![c] = connect(@)]
    /\ call' = Op("call_tool", tool_name, "", c, {}, <<>>, Failing(c, ok))
    /\ ret' = IF ok THEN Ret("result", c, <<>>, <<>>) ELSE Raised
    /\ UNCHANGED << run, _servers, _active_clients >>

\* the loop of MCPRegistry.collect_tools over the first n entries of the
\* selection; the servers in `down` fail the exchange of list_tools, and the
\* exception leaves the loop with the clients made so far still tracked
RECURSIVE CollectLoop(_, _, _, _, _)
CollectLoop(selection, servers, down, start, n) ==
    IF n = 0 THEN start
    ELSE LET prev == CollectLoop(selection, servers, down, start, n - 1)
             e == selection[n]
             id == Len(prev.instances) + 1
             made == [prev EXCEPT !.instances = Append(@, connect(NewClient(e.name))),
                                  !.tracked = Append(@, id),
                                  !.clients = Append(@, id)]
         IN IF prev.raised \/ ~Creatable(servers, e.name) THEN prev
            ELSE IF e.name \in down THEN [made EXCEPT !.raised = TRUE]
            ELSE [made EXCEPT !.tools = @ \o select_tools(e.name, e.tools)]

\* the selections collect_tools is called with: name -> tool names, in dict
\* order
Selections ==
    { MCP_TOOLS_CONFIG,
      << [name |-> "exa", tools |-> {"web_search_exa", "exa-crawl"}] >>,
      << [name |-> "tavily", tools |-> {"tavily-extract", "tavily-search"}],
         [name |-> "exa", tools |-> {}] >> }

\* MCPRegistry.collect_tools
CollectTools(selection, down) ==
    LET start == [instances |-> instances, tracked |-> _active_clients,
                  tools |-> <<>>, clients |-> <<>>, raised |-> FALSE]
        end == CollectLoop(selection, _servers, down, start, Len(selection))
    IN /\ Len(end.instances) <= MaxClients
       /\ instances' = end.instances
       /\ _active_clients' = end.tracked
       /\ call' = Op("collect_tools", "", "", 0, {}, selection, down)
       /\ ret' = IF end.raised THEN Raised
                 ELSE Ret("collected", 0, end.tools, end.clients)
       /\ UNCHANGED << run, _servers >>

\* mutant: the loop over the tracked clients ends after the first one
CloseAllFirstOnly ==
    /\ instances' = [i \in DOMAIN instances |->
                        IF _active_clients # <<>> /\ i = Head(_active_clients)
                        THEN close(instances[i]) ELSE instances[i]]
    /\ _active_clients' = <<>>
    /\ call' = Op("close_all_clients", "", "", 0, {}, <<>>, {})
    /\ ret' = None
    /\ UNCHANGED << run, _servers >>

\* MCPRegistry.close_all_clients
CloseAll ==
    /\ instances' = [i \in DOMAIN instances |->
                        IF i \in Range(_active_clients)
                        THEN close(instances[i]) ELSE instances[i]]
    /\ _active_clients' = <<>>
    /\ call' = Op("close_all_clients", "", "", 0, {}, <<>>, {})
    /\ ret' = None
    /\ UNCHANGED << run, _servers >>

\* the tool names a caller asks a client for
ToolNames == {"tavily-search", "web_search_exa", "exa-crawl"}

\* the registry called by its users, who may also close a client they hold
RegistryNext ==
    \/ \E config \in Configs : Register(config)
    \/ \E name \in Servers : Unregister(name)
    \/ \E name \in Servers : CreateClient(name)
    \/ \E selection \in Selections, down \in SUBSET Servers :
          CollectTools(selection, down)
    \/ \E c \in DOMAIN instances : Close(c)
    \/ CloseAll

RegistrySpec == RegistryInit /\ [][RegistryNext]_vars

\* ------------------------------------------------------ clients, by call

\* the name sets a caller hands to select_tools
NameSets ==
    { {}, {"web_search_exa"}, {"tavily-search", "exa-crawl"},
      {"tavily-search", "tavily-extract", "web_search_exa"} }

\* one client per provider, made with create_stdio_client /
\* create_http_client and not yet connected
ClientInit ==
    /\ RunIdle
    /\ DetachedIdle
    /\ _servers = <<>>
    /\ instances = << NewClient("tavily"), NewClient("exa") >>
    /\ _active_clients = <<>>
    /\ call = NoCall
    /\ ret = None

ClientNext ==
    \/ \E c \in DOMAIN instances : Connect(c)
    \/ \E c \in DOMAIN instances : Close(c)
    \/ \E c \in DOMAIN instances, ok \in BOOLEAN : ListTools(c, ok)
    \/ \E c \in DOMAIN instances, tool_names \in NameSets, ok \in BOOLEAN :
          SelectTools(c, tool_names, ok)
    \/ \E c \in DOMAIN instances, tool_name \in ToolNames, ok \in BOOLEAN :
          CallTool(c, tool_name, ok)

ClientSpec == ClientInit /\ [][ClientNext]_vars

\* ============================================ the budget lookup, on its own

\* depths and breadths in hundredths: the four steps, values between them,
\* below the first and above the last
BudgetInputs == {0, 10, 25, 40, 50, 60, 75, 90, 100, 125}

BudgetInit ==
    /\ deep_param \in BudgetInputs
    /\ wide_param \in BudgetInputs
    /\ RunUnstarted
    /\ LibraryUntouched
    /\ budget = NoConfig
    /\ SharedIdle
    /\ InvokeIdle
    /\ CodecIdle

\* one call of generate_dynamic_research_config(deep_param, wide_param, _)
GenerateConfig ==
    /\ budget = NoConfig
    /\ budget' = generate_dynamic_research_config(deep_param, wide_param)
    /\ UNCHANGED << inputs, library, registry, research, bridge, runs, closed_by,
                    invoke, codec >>

BudgetNext == GenerateConfig

BudgetSpec == BudgetInit /\ [][BudgetNext]_vars

\* ================================== concurrent runs on the global registry

\* Every run reaches the registry through get_registry(), which hands out
\* the one _global_registry. The runs are tasks of one event loop: a run
\* gives way to another only where it awaits an exchange (select_tools,
\* call_tool, a completion call); connect() and close() never suspend, and
\* the model still lets another run in before each close().

Runs == {1, 2}

\* a run before its research phase: where it is, the entry of the selection
\* collect_tools is at, its mcp_clients, and the copy close_all_clients
\* iterates over
NewRun(t) == [pc |-> "collect", topic |-> t, next |-> 1, held |-> <<>>, copy |-> <<>>]

SharedInit ==
    /\ RunIdle
    /\ BudgetIdle
    /\ InvokeIdle
    /\ CodecIdle
    /\ _servers \in BuiltinServers
    /\ instances = <<>>
    /\ _active_clients = <<>>
    /\ call = NoCall
    /\ ret = None
    /\ runs \in [Runs -> {NewRun(t) : t \in {"", "topic"}}]
    /\ closed_by = <<>>

SharedFrame ==
    UNCHANGED << run_vars, budget, invoke, codec, _servers, call, ret >>

\* run_research_llm_driven up to create_client for the next entry of the
\* selection: an empty topic returns at once, an unregistered server is
\* skipped, and the run that collected nothing returns
RunCollect(r) ==
    LET me == runs[r]
    IN /\ me.pc = "collect"
       /\ SharedFrame
       /\ IF me.topic = "" \/ me.next > Len(MCP_TOOLS_CONFIG)
          THEN /\ runs' = [runs EXCEPT ![r].pc =
                              IF me.held = <<>> THEN "report" ELSE "loop"]
               /\ UNCHANGED << instances, _active_clients, closed_by >>
          ELSE LET name == MCP_TOOLS_CONFIG[me.next].name
                   id == Len(instances) + 1
               IN IF Creatable(_servers, name)
                  THEN /\ Len(instances) < MaxClients
                       /\ instances' = Append(instances, connect(NewClient(name)))
                       /\ _active_clients' = Append(_active_clients, id)
                       /\ closed_by' = Append(closed_by, {})
                       /\ runs' = [runs EXCEPT ![r].pc = "select",
                                               ![r].held = Append(@, id)]
                  ELSE /\ runs' = [runs EXCEPT ![r].next = @ + 1]
                       /\ UNCHANGED << instances, _active_clients, closed_by >>

\* select_tools on the client just made comes back: with the tools, or
\* raising, which ends the run without close_all_clients
RunSelected(r, ok) ==
    LET me == runs[r]
        c == Last(me.held)
    IN /\ me.pc = "select"
       /\ SharedFrame
       /\ instances' = [instances EXCEPT ![c] = connect(@)]
       /\ runs' = IF ok THEN [runs EXCEPT ![r].pc = "collect", ![r].next = @ + 1]
                  ELSE [runs EXCEPT ![r].pc = "ended"]
       /\ UNCHANGED << _active_clients, closed_by >>

\* a round of the loop invokes a tool on the run's i-th client
RunCallTool(r, i) ==
    LET me == runs[r]
    IN /\ me.pc = "loop"
       /\ i \in DOMAIN me.held
       /\ SharedFrame
       /\ instances' = [instances EXCEPT ![me.held[i]] = connect(@)]
       /\ UNCHANGED << runs, _active_clients, closed_by >>

\* the research phase returns; the report is being generated
RunResearchDone(r) ==
    /\ runs[r].pc = "loop"
    /\ SharedFrame
    /\ runs' = [runs EXCEPT ![r].pc = "report"]
    /\ UNCHANGED << instances, _active_clients, closed_by >>

\* mutant: the tracked list is copied and not cleared
RunDrainKeep(r) ==
    /\ runs[r].pc = "report"
    /\ SharedFrame
    /\ runs' = [runs EXCEPT ![r].pc = IF _active_clients = <<>> THEN "ended" ELSE "closing",
                            ![r].copy = _active_clients]
    /\ UNCHANGED << instances, _active_clients, closed_by >>

\* close_all_clients after the report: nothing tracked, or
\* clients = list(self._active_clients); self._active_clients.clear()
RunDrain(r) ==
    /\ runs[r].pc = "report"
    /\ SharedFrame
    /\ runs' = [runs EXCEPT ![r].pc = IF _active_clients = <<>> THEN "ended" ELSE "closing",
                            ![r].copy = _active_clients]
    /\ _active_clients' = <<>>
    /\ UNCHANGED << instances, closed_by >>

\* `for client in clients: await client.close()`, one client at a time
RunCloseNext(r) ==
    LET me == runs[r]
    IN /\ me.pc = "closing"
       /\ SharedFrame
       /\ UNCHANGED _active_clients
       /\ IF me.copy = <<>>
          THEN /\ runs' = [runs EXCEPT ![r].pc = "ended"]
               /\ UNCHANGED << instances, closed_by >>
          ELSE LET c == Head(me.copy)
               IN /\ instances' = [instances EXCEPT ![c] = close(@)]
                  /\ closed_by' = [closed_by EXCEPT ![c] = @ \cup {r}]
                  /\ runs' = [runs EXCEPT ![r].copy = Tail(@)]

SharedNext ==
    \E r \in Runs :
        \/ RunCollect(r)
        \/ \E ok \in BOOLEAN : RunSelected(r, ok)
        \/ \E i \in 1..MaxClients : RunCallTool(r, i)
        \/ RunResearchDone(r)
        \/ RunDrain(r)
        \/ RunCloseNext(r)

SharedSpec == SharedInit /\ [][SharedNext]_vars

\* ============================================ one tool invoked over HTTP

\* the most lines a response body holds
MaxLines == 2

\* a line of a response body: what it starts with, whether the rest is a JSON
\* object, other JSON or no JSON, and the value under "result" ("absent"
\* when the object has no such key)
Line(prefix, json, result) == [prefix |-> prefix, json |-> json, result |-> result]

Lines ==
    { Line("event: ", "invalid", ""),
      Line("data: ", "object", "a"),
      Line("data: ", "object", "b"),
      Line("data: ", "object", "absent"),
      Line("data: ", "nonobject", ""),
      Line("data: ", "invalid", "") }

\* resp.status and text.split('\n')
Responses ==
    {[status |-> 500, lines |-> <<>>]} \cup
    {[status |-> 200, lines |-> l] : l \in UNION {[1..n -> Lines] : n \in 0..MaxLines}}

Returns(value) == [kind |-> "return", value |-> value]

Raises(value) == [kind |-> "raise", value |-> value]

\* the loop over the lines of an HTTP 200 body: the first line starting with
\* "data: " is loaded and its "result" returned; json.loads and result.get
\* raise on what is not JSON and on what is not an object
sse_result(lines) ==
    LET data == {i \in DOMAIN lines : lines[i].prefix = "data: "}
    IN IF data = {} THEN Raises("No valid data in SSE response")
       ELSE LET first == lines[CHOOSE i \in data : \A j \in data : i <= j]
            IN CASE first.json = "invalid" -> Raises("JSONDecodeError")
                 [] first.json = "nonobject" -> Raises("AttributeError")
                 [] OTHER -> Returns(IF first.result = "absent" THEN "{}"
                                     ELSE first.result)

\* MCPClient.call_tool over http, from the response on
call_tool(resp) ==
    IF resp.status = 200 THEN sse_result(resp.lines)
    ELSE Raises("HTTP request failed")

\* the clients the coroutine walks over, one per response
InvokeClients == [i \in DOMAIN responses |-> MCP_TOOLS_CONFIG[i].name]

InvokeInit ==
    /\ RunIdle
    /\ LibraryUntouched
    /\ BudgetIdle
    /\ SharedIdle
    /\ CodecIdle
    /\ responses \in UNION {[1..n -> Responses] : n \in 1..Len(MCP_TOOLS_CONFIG)}
    /\ exchanges = <<>>
    /\ single = NewTask

\* _execute_single_tool: call_tool of the client it is at returns or raises
Exchange ==
    LET out == call_tool(responses[single.client])
    IN /\ single.state = "running"
       /\ exchanges' = Append(exchanges, out)
       /\ single' = IF out.kind = "return"
                     THEN TaskAfterReturn(single, InvokeClients)
                     ELSE TaskAfterRaise(single, InvokeClients)
       /\ UNCHANGED << run_vars, library, budget, runs, closed_by, responses, codec >>

InvokeNext == Exchange

InvokeSpec == InvokeInit /\ [][InvokeNext]_vars

\* ======================================= a payload through dumps and loads

CodecInit ==
    /\ RunIdle
    /\ LibraryUntouched
    /\ BudgetIdle
    /\ SharedIdle
    /\ InvokeIdle
    /\ payload \in JsonValues
    /\ result_text = <<>>
    /\ parsed_result = NoParse

CodecFrame == UNCHANGED << run_vars, library, budget, runs, closed_by, invoke, payload >>

\* _execute_single_tool: result = json.dumps(result)
DumpResult ==
    /\ result_text = <<>>
    /\ result_text' = dumps(payload)
    /\ UNCHANGED parsed_result
    /\ CodecFrame

\* the round is recorded: json.loads(result_text), or the text kept as it is
RecordResult ==
    /\ result_text # <<>>
    /\ parsed_result = NoParse
    /\ parsed_result' = parse_result(result_text)
    /\ UNCHANGED result_text
    /\ CodecFrame

CodecNext == DumpResult \/ RecordResult

CodecSpec == CodecInit /\ [][CodecNext]_vars

\* =================================================================== claims

\* the budget the mapper derives exists (no KeyError)
BudgetMapped == ~ConfigRaises(deep_param, wide_param)

IsCompletionDirective(b) == b.kind = "call" /\ b.tool = ResearchComplete

HasCompletionDirective(out) == \E j \in DOMAIN out : IsCompletionDirective(out[j])

\* a completion directive appeared in some model output of the run
CompletionSeen == \E i \in DOMAIN outputs : HasCompletionDirective(outputs[i])

\* the research loop returned from inside or after the loop
LoopEnded == rpc = "returned" /\ outcome \in {"Completed", "Exhausted"}

\* the ledger entries recorded in round r
EntriesOfRound(r) == SelectSeq(tool_interactions, LAMBDA e : e.step = r)

IsTerminal(e) == e.action \in {"complete", "error"}

Count(action) == Cardinality({i \in DOMAIN events : events[i].action = action})

\* ---- C1
\* C1 (as claimed): the number of completion calls of the research loop never
\* exceeds the max_search_rounds the budget lookup gives for the run's depth.
C1_CallsWithinMaxRounds ==
    BudgetMapped => llm_calls <= max_search_rounds(deep_param)

\* ---- C2
\* C2 (as claimed): a run of the loop ends Exhausted if and only if
\* max_search_rounds(depth) rounds completed and no model output held a
\* completion directive.
C2_ExhaustedIffMaxRounds ==
    (BudgetMapped /\ LoopEnded) =>
        ((outcome = "Exhausted") <=>
            (step = max_search_rounds(deep_param) /\ ~CompletionSeen))

\* ---- C3
\* C3 (as claimed): the number of calls dispatched in a round never exceeds
\* the max_calls_per_round the budget lookup gives for the run's breadth.
C3_DispatchWithinMaxCalls ==
    (rpc = "tools" /\ BudgetMapped) =>
        Len(tasks) <= max_calls_per_round(wide_param)

\* ---- C4
\* C4 (as claimed): a directive beyond the bound is deferred: every call
\* executed in a round is among the first max_calls_per_round directives of
\* that round's model output.
C4_ExcessDeferred ==
    BudgetMapped =>
        \A k \in DOMAIN tool_interactions :
            LET e == tool_interactions[k]
                parsed == parse_tool_calls(conversation_history[2 * e.step - 1].content)
            IN \A i \in DOMAIN parsed :
                  parsed[i].id = e.id => i <= max_calls_per_round(wide_param)

\* ---- C5
\* C5 (as claimed): a model output that holds the completion directive ends
\* the run as Completed in that round, nothing of that output is dispatched,
\* and when it is the first output the ledger is empty.
C5_CompletionDirectiveEndsRun ==
    \A i \in DOMAIN outputs :
        HasCompletionDirective(outputs[i]) =>
            /\ i = Len(outputs)
            /\ rpc = "returned"
            /\ outcome = "Completed"
            /\ EntriesOfRound(i) = <<>>
            /\ (i = 1 => tool_interactions = <<>>)

C7_AnyFailureIsErrorResult ==
    \A i \in DOMAIN tasks :
        (tasks[i].state = "done" /\ tasks[i].raised # {}) =>
            json_loads(tasks[i].result).error

\* the tool-result message and the ledger entries of round r answer the
\* directives of that round's output one for one, in order
RoundFedBack(r) ==
    LET parsed == parse_tool_calls(messages[2 * r + 1].content)
        fed == messages[2 * r + 2].content
        entries == EntriesOfRound(r)
    IN /\ messages[2 * r + 2].role = "user"
       /\ conversation_history[2 * r].content = fed
       /\ Len(fed) = Len(parsed)
       /\ Len(entries) = Len(parsed)
       /\ \A j \in DOMAIN parsed :
             /\ fed[j].tool_call_id = parsed[j].id
             /\ fed[j].tool = parsed[j].tool
             /\ entries[j].id = parsed[j].id
             /\ entries[j].result = json_loads(fed[j].result)

\* what _execute_single_tool does guarantee: a directive whose call_tool
\* raises on every client gets the error result, one whose call_tool returns
\* on some client after raising on the earlier ones gets that client's
\* payload; no call_tool failure is raised to the loop, every directive of
\* the round has its result fed back in order, and the loop goes on.
ToolFailuresAreData ==
    /\ exception \in {"none", "KeyError", "AttributeError", "CompletionError",
                       "RuntimeError"}
    /\ exception = "RuntimeError" => (failures = 0 /\ llm_calls = 0)
    /\ rpc = "tools" =>
          \A i \in DOMAIN tasks :
              tasks[i].state = "done" =>
                  LET res == json_loads(tasks[i].result)
                  IN /\ res.error <=> tasks[i].raised = Range(mcp_clients)
                     /\ ~res.error =>
                           /\ res.from = mcp_clients[tasks[i].client]
                           /\ res.from \notin tasks[i].raised
                           /\ tasks[i].raised =
                                 {mcp_clients[k] : k \in 1..(tasks[i].client - 1)}
    /\ rpc \in {"llm", "tools", "returned", "raised"} /\ messages # <<>> =>
          /\ Len(messages) = 2 + 2 * step + (IF rpc = "tools" THEN 1 ELSE 0)
          /\ \A r \in 1..step : RoundFedBack(r)
    /\ (rpc = "llm" /\ failures > 0) => llm_calls = step + 1

\* a round with a directive that failed on both clients and a successful
\* directive was fed back and the next completion call is under way
FailedAndFedBack ==
    /\ rpc = "llm"
    /\ step >= 1
    /\ Len(mcp_clients) = 2
    /\ failures = 2
    /\ \E j, k \in DOMAIN tool_interactions :
          /\ tool_interactions[j].step = tool_interactions[k].step
          /\ tool_interactions[j].result.error
          /\ ~tool_interactions[k].result.error

\* ---- C8
ResearchCompletionFailed == rpc = "raised" /\ exception = "CompletionError"

ReportCompletionFailed == bpc = "failed" /\ rpc = "returned"

\* C8: when a completion call fails in the research loop or in the report
\* phase, no report is stored or handed out (after a failure in the research
\* loop the report phase is not even entered), the non-streaming form ends in
\* the failure, and the streaming form ends with one error event and no
\* complete event.
C8_CompletionFailureIsFatal ==
    /\ ResearchCompletionFailed =>
          /\ report_calls = 0
          /\ bpc \notin {"report", "report_wait", "done"}
          /\ notes = <<>>
    /\ (ResearchCompletionFailed \/ ReportCompletionFailed) =>
          /\ final_report = ""
          /\ sync_result # "state"
          /\ Count("complete") = 0
    /\ bpc = "failed" =>
          IF mode = "stream"
          THEN /\ Count("error") = 1
               /\ Last(events).action = "error"
               /\ Count("complete") = 0
               /\ sync_result = "none"
          ELSE /\ sync_result = "failure"
               /\ events = <<>>

\* a streaming run whose ledger already held a tool call ended with the
\* error event of a failed completion call
C8_Witness ==
    /\ mode = "stream"
    /\ ResearchCompletionFailed
    /\ tool_interactions # <<>>
    /\ bpc = "failed"
    /\ Last(events).action = "error"

\* ---- C9
\* C9: the yielded events are thinking (once, first, before any completion
\* call), then using_tools events, then at most one generating (after the
\* research loop returned, before the report's completion call), then only
\* the terminal event.
C9_EventOrder ==
    mode = "stream" =>
        /\ \A i \in DOMAIN events :
              /\ events[i].action \in
                    {"thinking", "using_tools", "generating", "complete", "error"}
              /\ (events[i].action = "thinking") <=> (i = 1)
              /\ \A j \in DOMAIN events :
                    (i < j /\ events[i].action = "generating") =>
                        (IsTerminal(events[j]) /\ j = Len(events))
        /\ (llm_calls > 0 \/ report_calls > 0 \/ rpc # "idle") => Count("thinking") = 1
        /\ Count("generating") <= 1
        /\ Count("generating") = 1 => rpc = "returned"
        /\ report_calls > 0 => Count("generating") = 1
        /\ Count("complete") = 1 => Count("generating") = 1

\* thinking, using_tools, generating and complete were all yielded
C9_Witness ==
    /\ mode = "stream"
    /\ Len(events) >= 4
    /\ events[2].action = "using_tools"
    /\ events[Len(events) - 1].action = "generating"
    /\ Last(events).action = "complete"

\* ---- C10
\* C10: a terminal event is the last event yielded; a streaming run has
\* ended exactly when its last event is terminal; complete carries the
\* report text the report phase returned.
C10_OneTerminalEventLast ==
    mode = "stream" =>
        /\ \A i \in DOMAIN events : IsTerminal(events[i]) => i = Len(events)
        /\ (bpc \in {"done", "failed"}) <=> (events # <<>> /\ IsTerminal(Last(events)))
        /\ \A i \in DOMAIN events :
              events[i].action = "complete" =>
                  /\ bpc = "done"
                  /\ events[i].message \in ReportTexts
                  /\ events[i].message = final_report
                  /\ Last(state_messages) = [role |-> "assistant", content |-> final_report]

\* a streaming run ended with complete after using_tools events
C10_Witness ==
    /\ mode = "stream"
    /\ bpc = "done"
    /\ Last(events).action = "complete"
    /\ Count("using_tools") >= 2

\* ---- C11
\* the rounds that dispatched calls so far
DispatchedRounds == step + (IF rpc = "tools" THEN 1 ELSE 0)

\* the status message of each dispatching round, in round order
Emitted ==
    [r \in 1..DispatchedRounds |->
        CHOOSE m \in StatusMessages(parse_tool_calls(outputs[r])) : TRUE]

\* the messages of the using_tools events, in event order
Delivered ==
    LET used == SelectSeq(events, LAMBDA e : e.action = "using_tools")
    IN [i \in DOMAIN used |-> used[i].message]

\* C11: in a streaming run the research loop puts one status message per
\* round that dispatches calls and none for the round that ends the run; the
\* using_tools events followed by the queue are these messages, each once,
\* in the order they were put; when generating or error is yielded every
\* message was delivered before it, also those still queued when the
\* research task returned or raised.
C11_StatusDeliveredOnceInOrder ==
    mode = "stream" =>
        /\ DispatchedRounds <= Len(outputs)
        /\ \A r \in 1..DispatchedRounds :
              Cardinality(StatusMessages(parse_tool_calls(outputs[r]))) = 1
        /\ Delivered \o status_queue = Emitted
        /\ \A i \in DOMAIN events :
              events[i].action \in {"generating", "error"} =>
                  /\ status_queue = <<>>
                  /\ Len(Delivered) = DispatchedRounds
                  /\ \A j \in DOMAIN events :
                        events[j].action = "using_tools" => j < i

\* the research task raised with one status message delivered and another,
\* different one still in the queue, and the stream is draining
C11_Witness ==
    /\ mode = "stream"
    /\ rpc = "raised"
    /\ bpc = "drain"
    /\ Len(Delivered) >= 1
    /\ status_queue # <<>>
    /\ Head(status_queue) # Delivered[1]

\* ---- C12
\* C12: while a call dispatched in a round is still running no completion
\* call is issued and the research loop does not end: whenever the loop
\* waits for the model or has ended, every call of every round so far is
\* done with a result (a payload or the error), and every round's calls are
\* all in the ledger.
C12_RoundBarrier ==
    /\ rpc \in {"llm", "returned", "raised"} =>
          \A i \in DOMAIN tasks :
              /\ tasks[i].state = "done"
              /\ tasks[i].result \in
                    {json_dumps(NotFoundError)} \cup
                    {json_dumps(Payload(mcp_clients[k])) : k \in DOMAIN mcp_clients}
    /\ rpc = "tools" =>
          /\ llm_calls = step + 1
          /\ outcome = "none"
          /\ bpc \notin {"report", "report_wait", "done", "failed"}
    /\ rpc \in {"llm", "tools", "returned", "raised"} =>
          \A r \in 1..step :
              Len(EntriesOfRound(r)) = Len(parse_tool_calls(outputs[r]))

\* the next completion call was issued after a round of three concurrent
\* calls, one of which had failed on a client
C12_Witness ==
    /\ rpc = "llm"
    /\ step >= 1
    /\ Len(tasks) = 3
    /\ \E i \in DOMAIN tasks : tasks[i].raised # {}
    /\ \E i \in DOMAIN tasks : tasks[i].raised = {}

\* ---- C13
\* C13: for every round folded so far the tool results fed back to the
\* model and the ledger entries of the round answer the directives of the
\* round's output one for one, in the order of the directives.
C13_ResultsInDirectiveOrder ==
    (rpc \in {"llm", "tools", "returned", "raised"} /\ messages # <<>>) =>
        \A r \in 1..step :
            /\ RoundFedBack(r)
            /\ messages[2 * r + 1].content = outputs[r]

\* a round of three calls was folded with the failed call's error in the
\* second place between two payloads, and in the round now running the last
\* call is done while the first is still running
C13_Witness ==
    /\ rpc = "tools"
    /\ step >= 1
    /\ Len(EntriesOfRound(1)) = 3
    /\ ~EntriesOfRound(1)[1].result.error
    /\ EntriesOfRound(1)[2].result.error
    /\ Len(tasks) = 3
    /\ tasks[3].state = "done"
    /\ tasks[1].state = "running"

\* ---- C14
\* the entries of a selection whose provider create_client can build a
\* client for: registered, with one of the two transports
Collectable(selection) ==
    {i \in DOMAIN selection : Creatable(_servers, selection[i].name)}

\* C14: when collect_tools returns, its tool list is the union, over the
\* requested providers that are registered (with a transport_type that
\* create_client knows; any other yields no client), of the tools the provider
\* answers to list_tools whose name was requested for that provider, each
\* once, and its client list holds one client per such provider, in the
\* order of the selection; a requested provider that is not registered adds
\* no tool and no client, and collect_tools raises only when the exchange
\* with a registered provider fails.
C14_CollectedIsFilteredUnion ==
    call.op = "collect_tools" =>
        LET selection == call.selection
            wanted == UNION {{t \in Range(ProviderTools(selection[i].name)) :
                                 t \in selection[i].tools} :
                             i \in Collectable(selection)}
        IN /\ ret.kind \in {"collected", "raised"}
           /\ ret.kind = "raised" <=>
                 \E i \in Collectable(selection) : selection[i].name \in call.fails
           /\ ret.kind = "collected" =>
                 /\ Range(ret.tools) = wanted
                 /\ Len(ret.tools) = Cardinality(wanted)
                 /\ Len(ret.clients) = Cardinality(Collectable(selection))
                 /\ \A k \in DOMAIN ret.clients :
                       /\ instances[ret.clients[k]].server \in DOMAIN _servers
                       /\ \E i \in Collectable(selection) :
                             instances[ret.clients[k]].server = selection[i].name
                 /\ \A j, k \in DOMAIN ret.clients :
                       j < k => \E i1, i2 \in Collectable(selection) :
                           /\ i1 < i2
                           /\ instances[ret.clients[j]].server = selection[i1].name
                           /\ instances[ret.clients[k]].server = selection[i2].name

\* collect_tools returned for the default selection with exa not
\* registered: one of tavily's two tools, one client
C14_Witness ==
    /\ call.op = "collect_tools"
    /\ call.selection = MCP_TOOLS_CONFIG
    /\ "exa" \notin DOMAIN _servers
    /\ ret.kind = "collected"
    /\ ret.tools = << "tavily-search" >>
    /\ Len(ret.clients) = 1

\* ---- C15
\* the clients the step from this state to the next constructs
NewInstances ==
    [k \in 1..(Len(instances') - Len(instances)) |-> Len(instances) + k]

\* C15: every client made by create_client or collect_tools is appended to
\* the tracked list, nothing else changes the list, and close_all_clients
\* closes every tracked client (whatever state it is in), leaves the others
\* alone, returns normally and leaves the list empty. (MCPClient.close has
\* no statement that can raise, so the except clause around it never runs.)
C15_CloseAllClosesTracked ==
    [][ /\ call'.op = "close_all_clients" =>
              /\ _active_clients' = <<>>
              /\ ret' = None
              /\ DOMAIN instances' = DOMAIN instances
              /\ \A c \in DOMAIN instances :
                    IF c \in Range(_active_clients)
                    THEN /\ ~instances'[c].connected
                         /\ instances'[c].was_closed =
                               (instances[c].was_closed \/ instances[c].connected)
                    ELSE instances'[c] = instances[c]
        /\ call'.op # "close_all_clients" =>
              _active_clients' = _active_clients \o NewInstances
      ]_vars

\* close_all_clients returned with two clients made by the registry, both
\* closed, and nothing tracked any more
C15_Witness ==
    /\ call.op = "close_all_clients"
    /\ Len(instances) >= 2
    /\ \A c \in DOMAIN instances : instances[c].was_closed /\ ~instances[c].connected
    /\ _active_clients = <<>>

\* ---- C16
\* C16: close never raises and leaves the client not connected; closing a
\* client again gives the state the first close gave, and closing a client
\* that is not connected (closed before, or never connected) changes nothing.
C16_CloseIsIdempotent ==
    /\ \A c \in DOMAIN instances :
          /\ close(close(instances[c])) = close(instances[c])
          /\ ~instances[c].connected => close(instances[c]) = instances[c]
          /\ ~close(instances[c]).connected
    /\ call.op = "close" =>
          /\ ret = None
          /\ ~instances[call.client].connected

\* close was called on a client that was never connected
C16_Witness ==
    /\ call.op = "close"
    /\ ret = None
    /\ instances[call.client] = NewClient(instances[call.client].server)

\* ---- C17
\* C17 (as claimed): a client that was closed is never connected again, and
\* list_tools, select_tools and call_tool on it fail with ClientClosed.
C17_ClosedIsTerminal ==
    /\ \A c \in DOMAIN instances :
          instances[c].was_closed => ~instances[c].connected
    /\ (/\ call.op \in {"list_tools", "select_tools", "call_tool"}
        /\ instances[call.client].was_closed) =>
          ret.kind = "ClientClosed"

\* ---- C18
\* C18: select_tools returns the tools the provider answers to list_tools
\* whose name is requested, in the provider's order and each once; a
\* requested name the provider does not offer adds nothing and raises
\* nothing (select_tools raises only when the exchange fails).
C18_SelectedAreRequestedAndOffered ==
    call.op = "select_tools" =>
        LET discovered == ProviderTools(instances[call.client].server)
        IN /\ ret.kind \in {"tools", "raised"}
           /\ ret.kind = "raised" <=> call.fails # {}
           /\ ret.kind = "tools" =>
                 /\ Range(ret.tools) = Range(discovered) \cap call.names
                 /\ \A j, k \in DOMAIN ret.tools :
                       j < k => \E a, b \in DOMAIN discovered :
                           /\ a < b
                           /\ discovered[a] = ret.tools[j]
                           /\ discovered[b] = ret.tools[k]

\* select_tools was asked for an offered and a not offered name and returned
\* the offered one alone, out of the provider's two tools
C18_Witness ==
    /\ call.op = "select_tools"
    /\ call.names = {"tavily-search", "exa-crawl"}
    /\ ret.kind = "tools"
    /\ ret.tools = << "tavily-search" >>

\* ---- C19
\* C19: after register(config) the registry maps config.name to config and
\* every other name to what it was mapped to before; a registered name is
\* overwritten, not rejected (register returns normally); registering the
\* same config again changes nothing.
C19_RegisterIsUpsert ==
    [][ call'.op = "register" =>
            LET config == [name |-> call'.name,
                           transport_type |-> call'.transport_type]
            IN /\ ret' = None
               /\ DOMAIN _servers' = DOMAIN _servers \cup {config.name}
               /\ _servers'[config.name] = config
               /\ \A n \in DOMAIN _servers \ {config.name} :
                     _servers'[n] = _servers[n]
               /\ register(_servers', config) = _servers'
               /\ UNCHANGED << instances, _active_clients >>
      ]_vars

\* register was the last call and the two registered names have different
\* transports: one entry was written and the other one kept
C19_Witness ==
    /\ call.op = "register"
    /\ DOMAIN _servers = Servers
    /\ _servers[call.name].transport_type = call.transport_type
    /\ \E n \in Servers : _servers[n].transport_type # call.transport_type

\* ---- C20
\* C20: create_client for a name that is not registered returns None, makes
\* no client and leaves the tracked list as it was; and when collect_tools
\* meets such a name (no exchange failing) it still returns, with a tracked
\* client for every requested provider that is registered.
C20_UnknownNameIsNotFound ==
    [][ /\ (call'.op = "create_client" /\ call'.name \notin DOMAIN _servers) =>
              /\ ret' = None
              /\ instances' = instances
              /\ _active_clients' = _active_clients
              /\ _servers' = _servers
        /\ (call'.op = "collect_tools" /\ call'.fails = {}) =>
              /\ ret'.kind = "collected"
              /\ \A i \in DOMAIN call'.selection :
                    LET e == call'.selection[i]
                    IN IF e.name \notin DOMAIN _servers
                       THEN \A k \in DOMAIN ret'.clients :
                               instances'[ret'.clients[k]].server # e.name
                       ELSE _servers[e.name].transport_type \in KnownTransports =>
                               \E k \in DOMAIN ret'.clients :
                                  /\ instances'[ret'.clients[k]].server = e.name
                                  /\ instances'[ret'.clients[k]].connected
                                  /\ ret'.clients[k] \in Range(_active_clients')
                                  /\ ret'.clients[k] \notin DOMAIN instances
      ]_vars

\* create_client returned None for a name that is not registered while a
\* client made earlier is still tracked
C20_Witness ==
    /\ call.op = "create_client"
    /\ call.name \notin DOMAIN _servers
    /\ ret = None
    /\ _active_clients # <<>>

\* ---- C21
\* C21: the budget lookup is a fixed table. Depth 0.25, 0.5, 0.75, 1.0 gives
\* 2, 4, 8, 16 rounds, breadth 0.25, 0.5, 0.75, 1.0 gives 2, 4, 4, 16 calls
\* a round, and any other depth or breadth makes the lookup raise: no value
\* is clamped to a neighbouring step and none is interpolated.
C21_BudgetIsFixedLookup ==
    budget.kind # "none" =>
        LET deepRow == {<<25, 2>>, <<50, 4>>, <<75, 8>>, <<100, 16>>}
            wideRow == {<<25, 2>>, <<50, 4>>, <<75, 4>>, <<100, 16>>}
            mapped == /\ \E row \in deepRow : row[1] = deep_param
                      /\ \E row \in wideRow : row[1] = wide_param
        IN  /\ mapped =>
                /\ budget.kind = "return"
                /\ <<deep_param, budget.max_search_rounds>> \in deepRow
                /\ <<wide_param, budget.max_calls_per_round>> \in wideRow
            /\ ~mapped => budget.kind = "KeyError"

\* a depth between two steps, with a mapped breadth, has been refused
C21_Witness ==
    /\ budget.kind = "KeyError"
    /\ deep_param = 40
    /\ wide_param = 50

\* ---- C22
\* C22 (as claimed): a run started with a depth or a breadth outside the four
\* steps never produces a report and, when it has ended, has ended in the
\* failure of the budget lookup, whatever its topic and its providers.
C22_UnmappedBudgetIsConfigError ==
    ~BudgetMapped =>
        /\ final_report = ""
        /\ report_calls = 0
        /\ bpc # "done"
        /\ bpc = "failed" => (rpc = "raised" /\ exception = "KeyError")

\* ---- C23
\* C23 (as claimed): the state run_deep_research hands back carries the
\* findings of the research phase as its notes (they are never empty here:
\* raw_notes is a JSON text or the joined conversation) together with the
\* text of the final report.
C23_ReturnedStateCarriesNotes ==
    sync_result = "state" =>
        /\ rpc = "returned"
        /\ notes = << raw_notes >>
        /\ final_report \in ReportTexts

\* ---- C24
\* C24 (as claimed): when a run has ended, with a report or with a failure,
\* no client made for it is still connected and none is still tracked by
\* the registry.
C24_NoClientLeftOpen ==
    bpc \in {"done", "failed"} =>
        /\ active_clients = <<>>
        /\ connected = {}

\* ---- C25
\* C25 (as claimed): with two runs at once, a client is passed to close()
\* only by the close_all_clients of the run that made it: the bulk close at
\* the end of one run never closes a client the other run holds.
C25_ClosedOnlyByOwnRun ==
    \A r \in DOMAIN runs :
        \A i \in DOMAIN runs[r].held :
            closed_by[runs[r].held[i]] \subseteq {r}

\* ---- C26
\* C26: whatever the interleaving of create_client and close_all_clients of
\* concurrent runs, no client is passed to close() by two close_all_clients
\* calls, and a client that left the tracked list is in the copy of exactly
\* one call that is still closing, or has been passed to close(): none is
\* dropped unclosed. A call that has returned has closed its whole copy.
C26_AddAndDrainDoNotInterfere ==
    /\ \A c \in DOMAIN instances :
          LET tracked == IF c \in Range(_active_clients) THEN 1 ELSE 0
              copies == Cardinality({r \in DOMAIN runs : c \in Range(runs[r].copy)})
          IN /\ Cardinality(closed_by[c]) <= 1
             /\ tracked + copies + Cardinality(closed_by[c]) = 1
    /\ \A r \in DOMAIN runs : runs[r].pc = "ended" => runs[r].copy = <<>>

\* one run made a client while the other run, having copied and cleared
\* the tracked list, had not yet closed every client of its copy
C26_Witness ==
    \E r \in DOMAIN runs :
        /\ runs[r].pc = "closing"
        /\ runs[r].copy # <<>>
        /\ _active_clients # <<>>

\* ---- C27
\* C27 (as claimed): the failure of a provider's exchange never ends the
\* research phase: raised while the tools are collected or while a tool is
\* invoked, it does not leave run_research_llm_driven, and the run goes on
\* to its report.
C27_TransportFailureIsNotFatal ==
    /\ exception # "RuntimeError"
    /\ bpc = "failed" => failures = 0

\* ---- C28
\* C28 (as claimed): when a server answers an invocation with HTTP 200 and a
\* body without any data line, the result of the directive is an error that
\* tells this failure: an error result, and not the one that says the tool
\* was not found in any server.
C28_NoDataLineIsToldInResult ==
    (/\ single.state = "done"
     /\ \E i \in DOMAIN exchanges :
           exchanges[i] = Raises("No valid data in SSE response")) =>
        /\ json_loads(single.result).error
        /\ json_loads(single.result) # NotFoundError

\* ---- C29
\* C29 (as claimed): a tool-call block that is not JSON, or is JSON but not
\* an object, is dropped without ending the round or the run, and the
\* well-formed blocks of the same output are the calls dispatched.
C29_MalformedBlockIsDiscarded ==
    /\ exception # "AttributeError"
    /\ \A i \in DOMAIN outputs :
          (\E k \in DOMAIN outputs[i] : outputs[i][k].kind # "call") =>
              ~(rpc = "raised" /\ i = Len(outputs) /\ llm_calls = i)
    /\ rpc = "tools" =>
          Len(tasks) = Cardinality({k \in DOMAIN Last(outputs) :
                                       Last(outputs)[k].kind = "call"})

\* C30 (as claimed): on an HTTP 200 body call_tool returns the "result" of
\* the first data line that is a JSON object, passing over the data lines
\* before it that are not, and raises "No valid data" only when the body
\* has no such line.
C30_FirstWellFormedEventWins ==
    \A i \in DOMAIN exchanges :
        responses[i].status = 200 =>
            LET lines == responses[i].lines
                good == {k \in DOMAIN lines : /\ lines[k].prefix = "data: "
                                               /\ lines[k].json = "object"}
                first == lines[CHOOSE k \in good : \A j \in good : k <= j]
            IN IF good = {}
               THEN exchanges[i] = Raises("No valid data in SSE response")
               ELSE exchanges[i] = Returns(IF first.result = "absent" THEN "{}"
                                           ELSE first.result)

\* ---- C31
\* C31 (as claimed): whichever way the research loop ends (completion
\* directive, output without directives, rounds used up), what it returns is
\* the ledger: the topic and the entries of every call dispatched during the
\* run, in dispatch order, with arguments and results.
C31_EveryOutcomeCarriesLedger ==
    LoopEnded =>
        /\ raw_notes = RawJson(topic, tool_interactions, "")
        /\ \A r \in 1..step :
              Len(EntriesOfRound(r)) = Len(parse_tool_calls(outputs[r]))

\* ---- C32
\* C32: the directives of a round have pairwise different ids and each runs
\* as one coroutine; once the round is folded, every ledger entry of the
\* round carries the id of exactly one directive of that round's output and
\* every directive has exactly one entry; a coroutine that is done tried the
\* clients one after the other and none after the one that returned.
C32_IdsPairRequestsAndResults ==
    /\ rpc = "tools" =>
          /\ Len(tasks) = Len(tool_calls)
          /\ \A i, j \in DOMAIN tool_calls :
                tool_calls[i].id = tool_calls[j].id => i = j
          /\ \A i \in DOMAIN tasks :
                LET before == {mcp_clients[k] : k \in 1..(tasks[i].client - 1)}
                IN IF tasks[i].state = "done" /\ json_loads(tasks[i].result).error
                   THEN tasks[i].raised = Range(mcp_clients)
                   ELSE tasks[i].raised = before
    /\ \A r \in 1..step :
          LET parsed == parse_tool_calls(outputs[r])
              entries == EntriesOfRound(r)
          IN /\ \A j \in DOMAIN entries :
                   Cardinality({k \in DOMAIN parsed : parsed[k].id = entries[j].id}) = 1
             /\ \A k \in DOMAIN parsed :
                   Cardinality({j \in DOMAIN entries : entries[j].id = parsed[k].id}) = 1

\* a round of three directives, two of them for the same tool, is folded
C32_Witness ==
    /\ step >= 1
    /\ Len(EntriesOfRound(1)) = 3

\* ---- C33
\* C33: the messages of a run only grow. The list is created as the system
\* prompt followed by the topic as its one user message, and every later
\* step leaves the messages it had in place and unchanged, adding at the end.
C33_MessagesAppendOnly ==
    [][/\ Len(messages) <= Len(messages')
       /\ SubSeq(messages', 1, Len(messages)) = messages
       /\ (messages = <<>> /\ messages' # <<>>) =>
             /\ Len(messages') = 2
             /\ messages'[1].role = "system"
             /\ messages'[2] = [role |-> "user", content |-> topic]]_vars

\* two rounds were folded: the prompt, the topic, and two outputs with their
\* results
C33_Witness ==
    /\ step >= 2
    /\ Len(messages) = 6
    /\ messages[3].role = "assistant"
    /\ messages[4].role = "user"

\* ---- C34
\* C34: a payload that is a JSON value comes back as the same value: the
\* text json.dumps makes of it is read by json.loads as one value, equal to
\* the payload, and that value (never the raw text) is what the ledger
\* entry holds.
C34_PayloadRoundTrip ==
    parsed_result # NoParse => parsed_result = Parsed(TRUE, payload, <<>>)

\* an object whose value is a string of a quote and a character outside
\* ASCII has been through dumps and loads
C34_Witness ==
    /\ parsed_result.json
    /\ payload.type = "object"
    /\ payload.inner[1].chars = <<"\"", "eacute">>

\* ---- C35
\* C35 (as claimed): report generation leaves the run state as the research
\* phase left it: once the report is there, the notes are still the
\* findings and the messages are still the topic and the findings message.
C35_ReportLeavesFindings ==
    bpc = "done" =>
        /\ notes = << raw_notes >>
        /\ state_messages = << [role |-> "user", content |-> topic],
                               [role |-> "user", content |-> raw_notes] >>

\* ---- C36
\* C36: in a streaming run whose steps are scheduled and whose report call
\* comes back, once the research task has finished (returned or raised) a
\* terminal event is eventually emitted; and nothing is left in the status
\* queue when the run has gone past the drain.
C36_TerminalEventEventually ==
    /\ [](bpc \in {"report", "report_wait", "done", "failed"} => status_queue = <<>>)
    /\ (TaskDone ~> (\E i \in DOMAIN events : IsTerminal(events[i])))

\* a round was run, its status message was yielded, the task finished and
\* the run ended with complete
C36_Witness ==
    /\ mode = "stream"
    /\ bpc = "done"
    /\ Count("using_tools") = 1
    /\ Count("complete") = 1
    /\ step = 1

\* ---- C37
\* C37: both run forms are the same function of the topic, the budgets, the
\* model outputs and the tool results. In either form the completion calls
\* made are the outputs received (plus the one in flight or failed), every
\* finished round fed back the results of exactly the directives of its
\* output, no client is closed before the report is stored and all are
\* closed with it, the report phase is entered only with the findings of a
\* returned research and calls the model once, and the report that ends the
\* run (the message of complete, or the final_report of the state handed
\* back) is the text the report call returned.
C37_FormsAgree ==
    /\ llm_calls = Len(outputs)
                     + (IF rpc = "llm" \/ ResearchCompletionFailed THEN 1 ELSE 0)
    /\ \A r \in 1..step : RoundFedBack(r)
    /\ IF bpc = "done"
       THEN /\ active_clients = <<>>
            /\ connected = {}
       ELSE /\ active_clients = mcp_clients \/ rpc \in {"idle", "start", "raised"}
            /\ Range(active_clients) \subseteq connected
    /\ bpc \in {"report", "report_wait", "done"} =>
          /\ rpc = "returned"
          /\ notes = IF bpc = "done" THEN <<>> ELSE << raw_notes >>
          /\ SubSeq(state_messages, 1, 2)
                = << [role |-> "user", content |-> topic],
                     [role |-> "user", content |-> raw_notes] >>
    /\ report_calls
          = (IF bpc \in {"report_wait", "done"} \/ ReportCompletionFailed THEN 1 ELSE 0)
    /\ IF bpc = "done"
       THEN /\ final_report \in ReportTexts
            /\ Last(state_messages) = [role |-> "assistant", content |-> final_report]
            /\ IF mode = "stream"
               THEN Last(events) = Event("complete", final_report)
               ELSE sync_result = "state"
       ELSE /\ final_report = ""
            /\ sync_result # "state"
            /\ Count("complete") = 0

\* a non-streaming run handed back its state with a report after a round in
\* which a tool call failed on a client
C37_Witness ==
    /\ mode = "sync"
    /\ sync_result = "state"
    /\ final_report \in ReportTexts
    /\ step >= 1
    /\ failures >= 1
    /\ active_clients = <<>>

\* ---- C38
\* the tools of a client's provider that are in the selected catalog
CatalogOf(client) ==
    UNION { Range(select_tools(client, MCP_TOOLS_CONFIG[n].tools)) :
              n \in { k \in DOMAIN MCP_TOOLS_CONFIG : MCP_TOOLS_CONFIG[k].name = client } }

\* the clients whose call_tool was entered for directive i: those that raised
\* and the one that returned
SentTo(i) ==
    tasks[i].raised
      \cup (IF tasks[i].state = "done" /\ ~json_loads(tasks[i].result).error
            THEN {mcp_clients[tasks[i].client]} ELSE {})

\* C38 (as claimed): a directive is sent only to a client whose provider
\* advertised the tool in the selected catalog; a directive naming a tool
\* outside the catalog is sent to no client.
C38_SentOnlyToAdvertisingClient ==
    rpc = "tools" =>
        \A i \in DOMAIN tasks :
            \A client \in SentTo(i) : tool_calls[i].tool \in CatalogOf(client)

\* ---- C39
\* C39: a research phase that returned because the topic is empty or because
\* the selection gave no tools made no completion call and no tool
\* invocation and returned a ledger without tool calls; the run goes on to
\* the report phase all the same: it ends only after the one completion call
\* of the report, and never makes a second.
C39_EarlyReturnStillReports ==
    outcome \in {"EmptyTopic", "NoTools"} =>
        /\ (outcome = "EmptyTopic") <=> (topic = "")
        /\ rpc = "returned"
        /\ llm_calls = 0
        /\ outputs = <<>>
        /\ tasks = <<>>
        /\ failures = 0
        /\ tool_interactions = <<>>
        /\ raw_notes.kind = "json"
        /\ raw_notes.tool_calls = <<>>
        /\ report_calls <= 1
        /\ bpc \in {"done", "failed"} => report_calls = 1
        /\ bpc = "done" => final_report \in ReportTexts

\* a streaming run whose selection gave no tools ended with the report
C39_Witness ==
    /\ mode = "stream"
    /\ outcome = "NoTools"
    /\ topic # ""
    /\ llm_calls = 0
    /\ bpc = "done"
    /\ report_calls = 1
    /\ Last(events) = Event("complete", final_report)

\* ---- C40
\* an output that has tool-call blocks, none of them an object naming a tool
AllMalformed(out) ==
    /\ out # <<>>
    /\ \A k \in DOMAIN out : out[k].kind # "call"

\* C40 (as claimed): an output whose tool-call blocks are all malformed is
\* the last one of the run: the loop returns Completed with the ledger as it
\* stands, dispatches nothing and makes no further completion call.
C40_AllMalformedCompletes ==
    \A i \in DOMAIN outputs :
        AllMalformed(outputs[i]) =>
            /\ i = Len(outputs)
            /\ llm_calls = i
            /\ rpc = "returned"
            /\ outcome = "Completed"
            /\ raw_notes = RawJson(topic, tool_interactions, "")

====
